---------------------------- MODULE Spec2Model ----------------------------
(***************************************************************************)
(* Model of `ethdo validator depositdata` (cmd/validatordepositdata.go).   *)
(*                                                                         *)
(* The command's Run function is modelled as a sequential state machine:   *)
(* one action per stretch of code between two calls to an external         *)
(* collaborator (wallet, signer, beacon node, hashing), so that the order  *)
(* of those calls, the points where the run may exit, and what has been    *)
(* written to standard output at each point are all visible.               *)
(*                                                                         *)
(* Byte strings are sequences over 0..255, text is a sequence of           *)
(* one-character strings, and standard output is a sequence of tokens.     *)
(***************************************************************************)
EXTENDS Integers, Sequences, FiniteSets, TLC

(***************************************************************************)
(* Bounds of the model and constants of the program.                       *)
(***************************************************************************)
\* Largest number of accounts the validator account path matches.
MaxAccounts == 2

\* MIN_DEPOSIT_AMOUNT, hard-coded in the assert on the deposit value.
MinDepositAmount == 1000000000
\* Length of a BLS public key, asserted on the raw withdrawal public key.
PubKeyLen == 48
\* Length of a fork version, asserted on the supplied fork version.
ForkVersionLen == 4
\* Length of a SHA-256 digest / hash tree root.
HashLen == 32
\* Length of a BLS signature (ssz-size tag of Signature).
SignatureLen == 96
\* "In quiet mode this will return 0 if the data can be generated
\* correctly, otherwise 1."
exitFailure == 1

Byte == 0..255

(***************************************************************************)
(* Text and hex helpers (fmt's %x / %#x verbs, encoding/hex, strings).     *)
(***************************************************************************)
HexDigits == <<"0","1","2","3","4","5","6","7","8","9","a","b","c","d","e","f">>

\* fmt.Sprintf("%x", b): two lower-case hex digits per byte, no prefix.
SprintfHex(b) ==
    [k \in 1..(2 * Len(b)) |->
        IF k % 2 = 1 THEN HexDigits[(b[(k + 1) \div 2] \div 16) + 1]
                     ELSE HexDigits[(b[k \div 2] % 16) + 1]]

\* fmt.Sprintf("%#x", b): as %x with a leading 0x.
SprintfHexPrefixed(b) == <<"0", "x">> \o SprintfHex(b)

\* strings.TrimPrefix(s, "0x")
TrimPrefix0x(s) ==
    IF Len(s) >= 2 /\ s[1] = "0" /\ s[2] = "x" THEN SubSeq(s, 3, Len(s)) ELSE s

\* The hex digits encoding/hex reads, upper or lower case, with their values.
HexValues ==
    [c \in {"0","1","2","3","4","5","6","7","8","9",
            "a","b","c","d","e","f","A","B","C","D","E","F"} |->
        CASE c = "0" -> 0  [] c = "1" -> 1  [] c = "2" -> 2  [] c = "3" -> 3
          [] c = "4" -> 4  [] c = "5" -> 5  [] c = "6" -> 6  [] c = "7" -> 7
          [] c = "8" -> 8  [] c = "9" -> 9
          [] c \in {"a", "A"} -> 10 [] c \in {"b", "B"} -> 11
          [] c \in {"c", "C"} -> 12 [] c \in {"d", "D"} -> 13
          [] c \in {"e", "E"} -> 14 [] c \in {"f", "F"} -> 15]

\* Value of one hex character as encoding/hex reads it; -1 if it is none.
HexVal(c) == IF c \in DOMAIN HexValues THEN HexValues[c] ELSE -1

\* hex.DecodeString(s): an error on an odd length or a character that is
\* no hex digit, else one byte per two characters.
HexDecodeString(s) ==
    IF Len(s) % 2 = 1 \/ \E k \in 1..Len(s) : HexVal(s[k]) = -1
    THEN [err |-> TRUE, bytes |-> <<>>]
    ELSE [err |-> FALSE,
          bytes |-> [j \in 1..(Len(s) \div 2) |->
                        16 * HexVal(s[2 * j - 1]) + HexVal(s[2 * j])]]

\* n zero bytes.
Zeros(n) == [j \in 1..n |-> 0]


(***************************************************************************)
(* External collaborators.  Their algorithms are outside the repository;   *)
(* each is a fixed deterministic function with the documented lengths,     *)
(* mixing every input byte so that a changed, dropped or permuted          *)
(* argument changes the result.                                            *)
(***************************************************************************)
\* bestPublicKey(account).Marshal(): the 48-byte public key of an account.
AccountPubKey(a) == [j \in 1..PubKeyLen |-> (16 * a + 3 * j) % 256]

\* util.SHA256(b): a 32-byte digest.
SHA256(b) ==
    [j \in 1..HashLen |->
        (b[((j - 1) % Len(b)) + 1] + 3 * b[((j + 15) % Len(b)) + 1] + 7 * j + 129) % 256]

RECURSIVE MixFields(_, _, _)
MixFields(fields, j, n) ==
    IF n = 0 THEN 11 * j
    ELSE (n + 1) * fields[n][((j - 1) % Len(fields[n])) + 1]
         + Len(fields[n]) + MixFields(fields, j, n - 1)

\* ssz.HashTreeRoot of a structure given as the sequence of its fields'
\* encodings, in field order: a 32-byte root, sensitive to that order.
HashTreeRoot(fields) == [j \in 1..HashLen |-> MixFields(fields, j, Len(fields)) % 256]

\* The SSZ encoding of a uint64 (little endian); values stay below 2^31.
Uint64LE(v) ==
    [j \in 1..8 |->
        CASE j = 1 -> v % 256
          [] j = 2 -> (v \div 256) % 256
          [] j = 3 -> (v \div 65536) % 256
          [] j = 4 -> (v \div 16777216) % 256
          [] OTHER -> 0]

\* e2types.DomainDeposit
DomainDeposit == <<3, 0, 0, 0>>
\* e2types.ZeroGenesisValidatorsRoot
ZeroGenesisValidatorsRoot == Zeros(HashLen)

\* e2types.Domain(type, forkVersion, genesisValidatorsRoot): the domain
\* type followed by the first 28 bytes of the fork data root.
Domain(domainType, forkVersion, genesisValidatorsRoot) ==
    domainType \o SubSeq(HashTreeRoot(<<forkVersion, genesisValidatorsRoot>>), 1, 28)

\* The signature an account gives over a root under a domain: 96 bytes.
BLSSign(a, root, domain) ==
    [j \in 1..SignatureLen |->
        (37 * a + root[((j - 1) % HashLen) + 1]
         + 5 * domain[((j - 1) % HashLen) + 1] + j) % 256]

\* string2eth.StringToGWei on the amounts the model supplies.
StringToGWei(s) ==
    CASE s = "999999999 Gwei" -> [err |-> FALSE, val |-> 999999999]
      [] s = "1 Ether"        -> [err |-> FALSE, val |-> 1000000000]
      [] s = "2 Ether"        -> [err |-> FALSE, val |-> 2000000000]
      [] OTHER                -> [err |-> TRUE,  val |-> 0]

(***************************************************************************)
(* The deposit structures of the Run function.                             *)
(***************************************************************************)
\* depositData (lines 102-110) and depositMessage (lines 184-192).
DepositData(pubKey, creds, value) ==
    [PubKey |-> pubKey, WithdrawalCredentials |-> creds, Value |-> value]

\* signedDepositData (lines 137-147).
SignedDepositData(pubKey, creds, value, sig) ==
    [PubKey |-> pubKey, WithdrawalCredentials |-> creds, Value |-> value,
     Signature |-> sig]

\* The fields of the structures in declaration order, as ssz reads them.
DepositDataFields(d) == <<d.PubKey, d.WithdrawalCredentials, Uint64LE(d.Value)>>
SignedDepositDataFields(d) ==
    <<d.PubKey, d.WithdrawalCredentials, Uint64LE(d.Value), d.Signature>>

\* A variant of WithdrawalCredentialsOf that leaves the digest's first byte.
WithdrawalCredentialsNoPrefix(pubKey) == SHA256(pubKey)

\* withdrawalCredentials = util.SHA256(pubKey.Marshal());
\* withdrawalCredentials[0] = byte(0)                  (lines 76/84 and 88)
WithdrawalCredentialsOf(pubKey) == [SHA256(pubKey) EXCEPT ![1] = 0]

(***************************************************************************)
(* Raw mode: the call data built by hand (lines 163-181), kept as the      *)
(* list of the segments the code appends, in order.                        *)
(***************************************************************************)
\* A variant of RawTxParts whose second pointer is 0xc0 instead of 0xe0.
RawTxPartsWrongPointer(depositDataRoot, pubKey, creds, sig) ==
    << <<34, 137, 81, 24>>,
       Zeros(31) \o <<128>>,
       Zeros(31) \o <<192>>,
       Zeros(30) \o <<1, 32>>,
       depositDataRoot,
       Zeros(31) \o <<48>>, pubKey, Zeros(16),
       Zeros(31) \o <<32>>, creds,
       Zeros(31) \o <<96>>, sig >>

\* A variant of RawTxParts that does not pad the public key.
RawTxPartsNoPadding(depositDataRoot, pubKey, creds, sig) ==
    << <<34, 137, 81, 24>>,
       Zeros(31) \o <<128>>,
       Zeros(31) \o <<224>>,
       Zeros(30) \o <<1, 32>>,
       depositDataRoot,
       Zeros(31) \o <<48>>, pubKey,
       Zeros(31) \o <<32>>, creds,
       Zeros(31) \o <<96>>, sig >>

RawTxParts(depositDataRoot, pubKey, creds, sig) ==
    << <<34, 137, 81, 24>>,              \* 0x22895118
       Zeros(31) \o <<128>>,             \* pointer to validator public key
       Zeros(31) \o <<224>>,             \* pointer to withdrawal credentials
       Zeros(30) \o <<1, 32>>,           \* pointer to validator signature
       depositDataRoot,                  \* deposit data root
       Zeros(31) \o <<48>>,              \* public key length
       pubKey,
       Zeros(16),                        \* pad to 32-byte boundary
       Zeros(31) \o <<32>>,              \* withdrawal credentials length
       creds,
       Zeros(31) \o <<96>>,              \* signature length
       sig >>

RECURSIVE Flatten(_)
Flatten(parts) ==
    IF parts = <<>> THEN <<>> ELSE Head(parts) \o Flatten(Tail(parts))

\* txData after the last append.
RawTxData(depositDataRoot, pubKey, creds, sig) ==
    Flatten(RawTxParts(depositDataRoot, pubKey, creds, sig))

(***************************************************************************)
(* Output tokens.  Standard output is a sequence of tokens: the JSON       *)
(* punctuation the format strings contain, one token per "key":value       *)
(* pair, one per raw hex string, and one per diagnostic line.              *)
(***************************************************************************)
Tok(kind) == [kind |-> kind, key |-> "", val |-> <<>>, num |-> 0]
TextField(key, chars) == [kind |-> "field", key |-> key, val |-> chars, num |-> 0]
NumField(key, n) == [kind |-> "field", key |-> key, val |-> <<>>, num |-> n]
\* A diagnostic line (outputIf / fmt.Printf under a flag) about account a.
Diag(kind, label, a) == [kind |-> kind, key |-> label, val |-> <<>>, num |-> a]

\* The tokens of seq, each preceded by one, if cond holds, else none.
DiagIf(cond, seq) == IF cond THEN seq ELSE <<>>

\* fmt.Sprintf("%#x", txData)                                   (line 182)
RawOutput(txData) ==
    << [kind |-> "raw", key |-> "", val |-> SprintfHexPrefixed(txData), num |-> 0] >>

\* The launchpad format string                                  (line 195)
LaunchpadOutput(sdd, value, depositMessageRoot, depositDataRoot, forkVersion) ==
    << Tok("["), Tok("{"),
       TextField("pubkey", SprintfHex(sdd.PubKey)),
       TextField("withdrawal_credentials", SprintfHex(sdd.WithdrawalCredentials)),
       NumField("amount", value),
       TextField("signature", SprintfHex(sdd.Signature)),
       TextField("deposit_message_root", SprintfHex(depositMessageRoot)),
       TextField("deposit_data_root", SprintfHex(depositDataRoot)),
       TextField("fork_version", SprintfHex(forkVersion)),
       Tok("}"), Tok("]") >>

\* The default format string                                    (line 197)
DefaultOutput(account, sdd, value, depositDataRoot) ==
    << Tok("{"),
       NumField("name", account),
       NumField("account", account),
       TextField("pubkey", SprintfHexPrefixed(sdd.PubKey)),
       TextField("withdrawal_credentials", SprintfHexPrefixed(sdd.WithdrawalCredentials)),
       TextField("signature", SprintfHexPrefixed(sdd.Signature)),
       NumField("value", value),
       TextField("deposit_data_root", SprintfHexPrefixed(depositDataRoot)),
       NumField("version", 2),
       Tok("}") >>

RECURSIVE JoinOutputs(_)
\* strings.Join(outputs, ",")
JoinOutputs(outs) ==
    IF outs = <<>> THEN <<>>
    ELSE IF Len(outs) = 1 THEN outs[1]
    ELSE outs[1] \o <<Tok(",")>> \o JoinOutputs(Tail(outs))

\* A variant of PrintOutputs that wraps a single output in an array too.
PrintOutputsAlwaysArray(outs) ==
    <<Tok("[")>> \o JoinOutputs(outs) \o <<Tok("]"), Tok("nl")>>

\* What lines 205-211 print for the collected outputs.
PrintOutputs(outs) ==
    IF Len(outs) = 1 THEN outs[1] \o <<Tok("nl")>>
    ELSE <<Tok("[")>> \o JoinOutputs(outs) \o <<Tok("]"), Tok("nl")>>

(***************************************************************************)
(* State.                                                                  *)
(***************************************************************************)
VARIABLES
    \* Command-line flags (package variables, lines 32-38, and the root
    \* command's quiet / verbose / debug).
    validatorDepositDataValidatorAccount,
    validatorDepositDataWithdrawalAccount,
    validatorDepositDataWithdrawalPubKey,
    validatorDepositDataDepositValue,
    validatorDepositDataRaw,
    validatorDepositDataForkVersion,
    validatorDepositDataLaunchpad,
    quiet,
    verbose,
    debug,
    \* The accounts the wallet enumerates for the validator account path.
    walletAccounts,
    \* Position in Run and its local variables.
    pc,
    validatorAccounts,
    withdrawalCredentials,
    val,
    idx,                \* position of the main loop in validatorAccounts
    validatorPubKey,
    forkVersion,
    domain,
    signature,
    depositDataRoot,
    outputs,
    \* The process's standard output and exit status (-1 while running).
    stdout,
    exitCode,
    \* History of collaborator calls: every signStruct request issued, and
    \* the number of grpc.FetchChainConfig calls made.
    signRequests,
    fetchCalls

flags == << validatorDepositDataValidatorAccount, validatorDepositDataWithdrawalAccount,
            validatorDepositDataWithdrawalPubKey, validatorDepositDataDepositValue,
            validatorDepositDataRaw, validatorDepositDataForkVersion,
            validatorDepositDataLaunchpad, quiet, verbose, debug, walletAccounts >>

locals == << validatorAccounts, withdrawalCredentials, val, idx, validatorPubKey,
             forkVersion, domain, signature, depositDataRoot, outputs >>

vars == << flags, locals, pc, stdout, exitCode, signRequests, fetchCalls >>

(***************************************************************************)
(* Inputs.                                                                 *)
(***************************************************************************)
\* The account the withdrawal account path resolves to: none of the
\* validator accounts.
WithdrawalAccount == MaxAccounts + 1

\* A public key given with --withdrawalpubkey.
RawWithdrawalPubKey == [j \in 1..PubKeyLen |-> (5 * j + 160) % 256]

WithdrawalPubKeyInputs ==
    { <<>>,
      SprintfHexPrefixed(RawWithdrawalPubKey),                       \* 48 bytes, 0x
      SprintfHex(SubSeq(RawWithdrawalPubKey, 1, PubKeyLen - 1)),     \* 47 bytes
      <<"0", "x", "z", "z">> }                                       \* not hex

ForkVersionInputs ==
    { <<>>,
      <<"0", "x", "0", "0", "0", "0", "0", "0", "0", "1">>,          \* 4 bytes
      <<"0", "0", "0", "0", "0", "1">>,                              \* 3 bytes
      <<"0", "x", "0", "g">> }                                       \* not hex

DepositValueInputs == {"", "bogus", "999999999 Gwei", "1 Ether", "2 Ether"}

\* config["GenesisForkVersion"] of the chain the beacon node follows: a
\* constant of the chain, the same at every fetch.
chainForkVersion == <<0, 0, 32, 9>>

Init ==
    /\ validatorDepositDataValidatorAccount \in {"", "wallet/validators"}
    /\ validatorDepositDataWithdrawalAccount \in {"", "wallet/withdrawal"}
    /\ validatorDepositDataWithdrawalPubKey \in WithdrawalPubKeyInputs
    /\ validatorDepositDataDepositValue \in DepositValueInputs
    /\ validatorDepositDataRaw \in BOOLEAN
    /\ validatorDepositDataForkVersion \in ForkVersionInputs
    /\ validatorDepositDataLaunchpad \in BOOLEAN
    /\ quiet \in BOOLEAN
    /\ verbose \in BOOLEAN
    /\ debug \in BOOLEAN
    /\ walletAccounts \in { [k \in 1..n |-> k] : n \in 0..MaxAccounts }
    /\ pc = "start"
    /\ validatorAccounts = <<>>
    /\ withdrawalCredentials = <<>>
    /\ val = 0
    /\ idx = 0
    /\ validatorPubKey = <<>>
    /\ forkVersion = <<>>
    /\ domain = <<>>
    /\ signature = <<>>
    /\ depositDataRoot = <<>>
    /\ outputs = <<>>
    /\ stdout = <<>>
    /\ exitCode = -1
    /\ signRequests = <<>>
    /\ fetchCalls = 0

(***************************************************************************)
(* Leaving the process.                                                    *)
(***************************************************************************)
\* os.Exit(code) after writing `printed` to standard output.
Exit(code, printed) ==
    /\ pc' = "exited"
    /\ exitCode' = code
    /\ stdout' = stdout \o printed

\* errCheck(err, msg) with err != nil, and assert(cond, msg) with cond
\* false: a message on the error stream, then os.Exit(_exitFailure).
\* `printed` is what the handler wrote to standard output before it.
Die(printed) == Exit(exitFailure, printed)

\* The account the main loop is at.
validatorAccount == validatorAccounts[idx]

(***************************************************************************)
(* Run, lines 56-59: the validator accounts.                               *)
(***************************************************************************)
ResolveValidatorAccounts ==
    /\ pc = "start"
    /\ \E err \in BOOLEAN :
        IF validatorDepositDataValidatorAccount = "" \/ err \/ Len(walletAccounts) = 0
        THEN /\ Die(<<>>)
             /\ UNCHANGED validatorAccounts
        ELSE /\ validatorAccounts' = walletAccounts
             /\ pc' = "checkKeys"
             /\ UNCHANGED << stdout, exitCode >>
    /\ UNCHANGED << flags, withdrawalCredentials, val, idx, validatorPubKey, forkVersion,
                    domain, signature, depositDataRoot, outputs, signRequests, fetchCalls >>

(***************************************************************************)
(* Run, lines 61-66: every account must provide a public key.  failAt is   *)
(* the first account whose key cannot be had (0: none).                    *)
(***************************************************************************)
\* Line 62, printed before the key of account a is asked for.
CreatingDiagnostic(a) == DiagIf(verbose, <<Diag("verbose", "Creating deposit", a)>>)

RECURSIVE KeyDiagnostics(_, _)
\* What the loop prints for the first n accounts, all with a key.
KeyDiagnostics(accounts, n) ==
    IF n = 0 THEN <<>>
    ELSE KeyDiagnostics(accounts, n - 1)
         \o CreatingDiagnostic(accounts[n])
         \o DiagIf(debug, <<Diag("debug", "Validator public key", accounts[n])>>)

CheckPublicKeys ==
    /\ pc = "checkKeys"
    /\ \E failAt \in 0..Len(validatorAccounts) :
        IF failAt > 0
        THEN Die(KeyDiagnostics(validatorAccounts, failAt - 1)
                 \o CreatingDiagnostic(validatorAccounts[failAt]))
        ELSE /\ stdout' = stdout \o KeyDiagnostics(validatorAccounts, Len(validatorAccounts))
             /\ pc' = "withdrawal"
             /\ UNCHANGED exitCode
    /\ UNCHANGED << flags, locals, signRequests, fetchCalls >>

(***************************************************************************)
(* Run, lines 68-89: the withdrawal credentials.                           *)
(***************************************************************************)
CredentialDiagnostics ==
    << Diag("debug", "Withdrawal credentials", WithdrawalAccount) >>

WithdrawalCredentials ==
    /\ pc = "withdrawal"
    /\ IF validatorDepositDataWithdrawalAccount = ""
          /\ validatorDepositDataWithdrawalPubKey = <<>>
       THEN /\ Die(<<>>)
            /\ UNCHANGED withdrawalCredentials
       ELSE IF validatorDepositDataWithdrawalAccount # ""
       THEN \E outcome \in {"ok", "no account", "no public key"} :
            IF outcome = "ok"
            THEN /\ withdrawalCredentials'
                        = WithdrawalCredentialsOf(AccountPubKey(WithdrawalAccount))
                 /\ stdout' = stdout
                      \o DiagIf(debug, <<Diag("debug", "Withdrawal public key",
                                               WithdrawalAccount)>>
                                       \o CredentialDiagnostics)
                 /\ pc' = "value"
                 /\ UNCHANGED exitCode
            ELSE /\ Die(<<>>)
                 /\ UNCHANGED withdrawalCredentials
       ELSE LET decoded == HexDecodeString(
                               TrimPrefix0x(validatorDepositDataWithdrawalPubKey))
            IN \E validKey \in BOOLEAN :
               IF decoded.err \/ Len(decoded.bytes) # PubKeyLen \/ ~validKey
               THEN /\ Die(<<>>)
                    /\ UNCHANGED withdrawalCredentials
               ELSE /\ withdrawalCredentials' = WithdrawalCredentialsOf(decoded.bytes)
                    /\ stdout' = stdout \o DiagIf(debug, CredentialDiagnostics)
                    /\ pc' = "value"
                    /\ UNCHANGED exitCode
    /\ UNCHANGED << flags, validatorAccounts, val, idx, validatorPubKey, forkVersion,
                    domain, signature, depositDataRoot, outputs, signRequests, fetchCalls >>

(***************************************************************************)
(* Run, lines 91-95: the deposit value.                                    *)
(***************************************************************************)
\* A variant of MeetsMinDeposit that rejects the minimum itself.
MeetsMinDepositStrict(v) == v > MinDepositAmount

\* val >= 1000000000                                             (line 95)
MeetsMinDeposit(v) == v >= MinDepositAmount

DepositValue ==
    /\ pc = "value"
    /\ LET parsed == StringToGWei(validatorDepositDataDepositValue)
       IN IF validatorDepositDataDepositValue = "" \/ parsed.err
             \/ ~MeetsMinDeposit(parsed.val)
          THEN /\ Die(<<>>)
               /\ UNCHANGED << val, idx, outputs >>
          ELSE /\ val' = parsed.val
               /\ outputs' = <<>>
               /\ idx' = 1
               /\ pc' = "loopKey"
               /\ UNCHANGED << stdout, exitCode >>
    /\ UNCHANGED << flags, validatorAccounts, withdrawalCredentials, validatorPubKey,
                    forkVersion, domain, signature, depositDataRoot, signRequests,
                    fetchCalls >>

(***************************************************************************)
(* Run, lines 99-111: the validator's public key and its deposit data.     *)
(***************************************************************************)
LoopPublicKey ==
    /\ pc = "loopKey"
    /\ \E err \in BOOLEAN :
        IF err
        THEN /\ Die(<<>>)
             /\ UNCHANGED validatorPubKey
        ELSE /\ validatorPubKey' = AccountPubKey(validatorAccount)
             /\ stdout' = stdout
                  \o DiagIf(debug, <<Diag("debug", "Deposit data", validatorAccount)>>)
             /\ pc' = "loopFork"
             /\ UNCHANGED exitCode
    /\ UNCHANGED << flags, validatorAccounts, withdrawalCredentials, val, idx, forkVersion,
                    domain, signature, depositDataRoot, outputs, signRequests, fetchCalls >>

(***************************************************************************)
(* Run, lines 113-133: the fork version, supplied or fetched from the      *)
(* beacon node, and the signing domain.                                    *)
(***************************************************************************)
ForkDiagnostics ==
    << Diag("debug", "Fork version", validatorAccount),
       Diag("debug", "Domain", validatorAccount) >>

LoopForkVersion ==
    /\ pc = "loopFork"
    /\ IF validatorDepositDataForkVersion # <<>>
       THEN LET decoded == HexDecodeString(TrimPrefix0x(validatorDepositDataForkVersion))
            IN /\ IF decoded.err \/ Len(decoded.bytes) # ForkVersionLen
                  THEN /\ Die(<<>>)
                       /\ UNCHANGED << forkVersion, domain >>
                  ELSE /\ forkVersion' = decoded.bytes
                       /\ domain' = Domain(DomainDeposit, decoded.bytes,
                                           ZeroGenesisValidatorsRoot)
                       /\ stdout' = stdout \o DiagIf(debug, ForkDiagnostics)
                       /\ pc' = "loopSign"
                       /\ UNCHANGED exitCode
               /\ UNCHANGED fetchCalls
       ELSE \E outcome \in {"ok", "connect failed", "fetch failed", "no fork version"} :
               /\ fetchCalls' = IF outcome = "connect failed" THEN fetchCalls
                                ELSE fetchCalls + 1
               /\ IF outcome = "ok"
                  THEN /\ forkVersion' = chainForkVersion
                       /\ domain' = Domain(DomainDeposit, chainForkVersion,
                                           ZeroGenesisValidatorsRoot)
                       /\ stdout' = stdout \o DiagIf(debug, ForkDiagnostics)
                       /\ pc' = "loopSign"
                       /\ UNCHANGED exitCode
                  ELSE IF outcome = "fetch failed"
                  THEN /\ Exit(exitFailure,
                               DiagIf(~quiet,
                                      <<Diag("msg", "Could not connect to beacon node",
                                             validatorAccount)>>))
                       /\ UNCHANGED << forkVersion, domain >>
                  ELSE /\ Die(<<>>)
                       /\ UNCHANGED << forkVersion, domain >>
    /\ UNCHANGED << flags, validatorAccounts, withdrawalCredentials, val, idx,
                    validatorPubKey, signature, depositDataRoot, outputs, signRequests >>

(***************************************************************************)
(* Run, lines 134-135: the signature request.                              *)
(***************************************************************************)
\* What one call of signStruct(validatorAccount, depositData, domain)
\* leaves in the history.
SignRequest(ok) ==
    [account |-> validatorAccount,
     data    |-> DepositData(validatorPubKey, withdrawalCredentials, val),
     domain  |-> domain,
     ok      |-> ok]

\* A variant of LoopSign that asks again, once, when a request is refused.
LoopSignRetrying ==
    /\ pc = "loopSign"
    /\ \E ok \in BOOLEAN :
        signRequests' = IF ok THEN Append(signRequests, SignRequest(TRUE))
                        ELSE Append(Append(signRequests, SignRequest(FALSE)),
                                    SignRequest(TRUE))
    /\ signature' =
          BLSSign(validatorAccount,
                  HashTreeRoot(DepositDataFields(
                      DepositData(validatorPubKey, withdrawalCredentials, val))),
                  domain)
    /\ pc' = "loopRoot"
    /\ UNCHANGED << flags, validatorAccounts, withdrawalCredentials, val, idx,
                    validatorPubKey, forkVersion, domain, depositDataRoot, outputs,
                    stdout, exitCode, fetchCalls >>

LoopSign ==
    /\ pc = "loopSign"
    /\ \E ok \in BOOLEAN :
        /\ signRequests' = Append(signRequests, SignRequest(ok))
        /\ IF ok
           THEN /\ signature' =
                     BLSSign(validatorAccount,
                             HashTreeRoot(DepositDataFields(
                                 DepositData(validatorPubKey, withdrawalCredentials, val))),
                             domain)
                /\ pc' = "loopRoot"
                /\ UNCHANGED << stdout, exitCode >>
           ELSE /\ Die(<<>>)
                /\ UNCHANGED signature
    /\ UNCHANGED << flags, validatorAccounts, withdrawalCredentials, val, idx,
                    validatorPubKey, forkVersion, domain, depositDataRoot, outputs,
                    fetchCalls >>

(***************************************************************************)
(* Run, lines 137-158: the signed deposit data and its root.               *)
(***************************************************************************)
signedDepositData ==
    SignedDepositData(validatorPubKey, withdrawalCredentials, val, signature)

LoopHashTreeRoot ==
    /\ pc = "loopRoot"
    /\ LET dump == DiagIf(debug, <<Diag("debug", "Signed deposit data", validatorAccount)>>)
       IN \E err \in BOOLEAN :
            IF err
            THEN /\ Die(dump)
                 /\ UNCHANGED depositDataRoot
            ELSE /\ depositDataRoot'
                        = HashTreeRoot(SignedDepositDataFields(signedDepositData))
                 /\ stdout' = stdout \o dump
                      \o DiagIf(debug, <<Diag("debug", "Deposit data root",
                                              validatorAccount)>>)
                 /\ pc' = "loopEncode"
                 /\ UNCHANGED exitCode
    /\ UNCHANGED << flags, validatorAccounts, withdrawalCredentials, val, idx,
                    validatorPubKey, forkVersion, domain, signature, outputs,
                    signRequests, fetchCalls >>

(***************************************************************************)
(* Run, lines 160-199: the output of this validator, and the loop's step.  *)
(***************************************************************************)
\* The loop's next position after the account at idx.
LoopAdvance ==
    /\ idx' = idx + 1
    /\ pc' = IF idx < Len(validatorAccounts) THEN "loopKey" ELSE "finish"

\* The entry the switch of lines 160-198 appends to outputs.
ValidatorOutput ==
    IF validatorDepositDataRaw
    THEN RawOutput(RawTxData(depositDataRoot, validatorPubKey, withdrawalCredentials,
                             signedDepositData.Signature))
    ELSE IF validatorDepositDataLaunchpad
    THEN LaunchpadOutput(signedDepositData, val,
             HashTreeRoot(DepositDataFields(
                 DepositData(validatorPubKey, withdrawalCredentials, val))),
             depositDataRoot, forkVersion)
    ELSE DefaultOutput(validatorAccount, signedDepositData, val, depositDataRoot)

\* A variant of LoopEncode that prints each entry as it is produced.
LoopEncodePrinting ==
    /\ pc = "loopEncode"
    /\ outputs' = Append(outputs, ValidatorOutput)
    /\ stdout' = stdout \o ValidatorOutput
    /\ LoopAdvance
    /\ UNCHANGED << flags, validatorAccounts, withdrawalCredentials, val, validatorPubKey,
                    forkVersion, domain, signature, depositDataRoot, exitCode,
                    signRequests, fetchCalls >>

LoopEncode ==
    /\ pc = "loopEncode"
    /\ \E err \in BOOLEAN :
        \* Only the launchpad case computes a further root (line 193).
        IF err /\ ~validatorDepositDataRaw /\ validatorDepositDataLaunchpad
        THEN /\ Die(<<>>)
             /\ UNCHANGED << outputs, idx >>
        ELSE /\ outputs' = Append(outputs, ValidatorOutput)
             /\ LoopAdvance
             /\ UNCHANGED << stdout, exitCode >>
    /\ UNCHANGED << flags, validatorAccounts, withdrawalCredentials, val, validatorPubKey,
                    forkVersion, domain, signature, depositDataRoot, signRequests,
                    fetchCalls >>

(***************************************************************************)
(* Run, lines 201-211: quiet exit, or the printed result.                  *)
(***************************************************************************)
Finish ==
    /\ pc = "finish"
    /\ IF quiet
       THEN Exit(0, <<>>)
       ELSE Exit(0, PrintOutputs(outputs))
    /\ UNCHANGED << flags, locals, signRequests, fetchCalls >>

Next ==
    \/ ResolveValidatorAccounts
    \/ CheckPublicKeys
    \/ WithdrawalCredentials
    \/ DepositValue
    \/ LoopPublicKey
    \/ LoopForkVersion
    \/ LoopSign
    \/ LoopHashTreeRoot
    \/ LoopEncode
    \/ Finish

Spec == Init /\ [][Next]_vars

(***************************************************************************)
(* The raw encoder on its own: the encode step and the final print,        *)
(* started with one validator whose public key, withdrawal credentials,    *)
(* signature and deposit data root are drawn from byte patterns.           *)
(***************************************************************************)
BytePatterns(n) ==
    { Zeros(n),
      [j \in 1..n |-> 255],
      [j \in 1..n |-> (7 * j + 1) % 256],
      [j \in 1..n |-> 255 - j] }

InitRaw ==
    /\ validatorDepositDataValidatorAccount = "wallet/validators"
    /\ validatorDepositDataWithdrawalAccount = "wallet/withdrawal"
    /\ validatorDepositDataWithdrawalPubKey = <<>>
    /\ validatorDepositDataDepositValue = "1 Ether"
    /\ validatorDepositDataRaw = TRUE
    /\ validatorDepositDataForkVersion = <<>>
    /\ validatorDepositDataLaunchpad \in BOOLEAN
    /\ quiet = FALSE
    /\ verbose = FALSE
    /\ debug = FALSE
    /\ walletAccounts = <<1>>
    /\ pc = "loopEncode"
    /\ validatorAccounts = <<1>>
    /\ withdrawalCredentials \in { [b EXCEPT ![1] = 0] : b \in BytePatterns(HashLen) }
    /\ val = MinDepositAmount
    /\ idx = 1
    /\ validatorPubKey \in BytePatterns(PubKeyLen)
    /\ forkVersion = chainForkVersion
    /\ domain = Domain(DomainDeposit, chainForkVersion, ZeroGenesisValidatorsRoot)
    /\ signature \in BytePatterns(SignatureLen)
    /\ depositDataRoot \in BytePatterns(HashLen)
    /\ outputs = <<>>
    /\ stdout = <<>>
    /\ exitCode = -1
    /\ signRequests = <<>>
    /\ fetchCalls = 0

NextRaw ==
    \/ LoopEncode
    \/ Finish

SpecRaw == InitRaw /\ [][NextRaw]_vars

(***************************************************************************)
(* Reading the run.                                                        *)
(***************************************************************************)
Exited == pc = "exited"
Succeeded == Exited /\ exitCode = 0

\* The number of matched validator accounts.
NumValidators == Len(validatorAccounts)

IsDiagnostic(t) == t.kind \in {"verbose", "debug", "msg"}

\* What was printed apart from diagnostic lines.
Printed == SelectSeq(stdout, LAMBDA t : ~IsDiagnostic(t))

\* Printed without its final newline.
PrintedValue ==
    IF Printed # <<>> /\ Printed[Len(Printed)].kind = "nl"
    THEN SubSeq(Printed, 1, Len(Printed) - 1)
    ELSE Printed

\* o is one JSON object with exactly the given keys, in order.
IsObject(o, keys) ==
    /\ Len(o) = Len(keys) + 2
    /\ o[1].kind = "{"
    /\ o[Len(o)].kind = "}"
    /\ \A k \in 1..Len(keys) : o[k + 1].kind = "field" /\ o[k + 1].key = keys[k]

\* The tokens the i-th object of a flat array of such objects occupies.
ElementOf(r, i, keys) ==
    SubSeq(r, 2 + (i - 1) * (Len(keys) + 3), 1 + i * (Len(keys) + 3) - 1)

\* r is one JSON array whose n elements are objects with the given keys:
\* one opening bracket, the objects separated by commas, one closing one.
IsArrayOfObjects(r, n, keys) ==
    /\ Len(r) = n * (Len(keys) + 3) + 1
    /\ r[1].kind = "["
    /\ r[Len(r)].kind = "]"
    /\ \A i \in 1..n :
        /\ IsObject(ElementOf(r, i, keys), keys)
        /\ i < n => r[1 + i * (Len(keys) + 3)].kind = ","

\* The token of object o with this key.
FieldOf(o, key) == o[CHOOSE k \in 1..Len(o) : o[k].kind = "field" /\ o[k].key = key]

\* The bytes a hex text, with or without 0x, stands for.
BytesOf(chars) == HexDecodeString(TrimPrefix0x(chars)).bytes

DefaultKeys ==
    << "name", "account", "pubkey", "withdrawal_credentials", "signature", "value",
       "deposit_data_root", "version" >>

LaunchpadKeys ==
    << "pubkey", "withdrawal_credentials", "amount", "signature",
       "deposit_message_root", "deposit_data_root", "fork_version" >>

\* Object o carries the public key of account a.
BelongsTo(o, a) == BytesOf(FieldOf(o, "pubkey").val) = AccountPubKey(a)

\* The run left the main loop by a failure while processing a validator.
FailedInBatch == Exited /\ idx \in 1..NumValidators

(***************************************************************************)
(* C1: if the processing of any validator of the batch fails, the run      *)
(* ends with a nonzero exit status and no deposit result of the batch is   *)
(* on standard output, those of validators processed before it included.   *)
(***************************************************************************)
C1_FailedBatchPrintsNoResult ==
    /\ FailedInBatch => exitCode # 0 /\ Printed = <<>>
    /\ Printed # <<>> => Succeeded /\ Len(outputs) = NumValidators

\* A batch that failed at its second or third validator, with the result
\* of an earlier one already collected, in a run that is not quiet.
C1_Witness ==
    /\ FailedInBatch
    /\ ~quiet
    /\ idx >= 2
    /\ Len(outputs) >= 1
    /\ exitCode = exitFailure

(***************************************************************************)
(* C2: in default mode the printed output for N >= 2 validators is one     *)
(* JSON array of exactly N deposit objects, the i-th that of the i-th      *)
(* enumerated account; for N = 1 it is the single object, unwrapped.       *)
(***************************************************************************)
C2_DefaultOutputShape ==
    (Succeeded /\ ~quiet /\ ~validatorDepositDataRaw /\ ~validatorDepositDataLaunchpad)
    => /\ Printed[Len(Printed)].kind = "nl"
       /\ IF NumValidators = 1
          THEN /\ IsObject(PrintedValue, DefaultKeys)
               /\ BelongsTo(PrintedValue, validatorAccounts[1])
               /\ FieldOf(PrintedValue, "account").num = validatorAccounts[1]
          ELSE /\ IsArrayOfObjects(PrintedValue, NumValidators, DefaultKeys)
               /\ \A i \in 1..NumValidators :
                    LET o == ElementOf(PrintedValue, i, DefaultKeys)
                    IN /\ BelongsTo(o, validatorAccounts[i])
                       /\ FieldOf(o, "account").num = validatorAccounts[i]

\* A default-mode run that printed the results of two or more validators.
C2_Witness ==
    /\ Succeeded /\ ~quiet /\ ~validatorDepositDataRaw /\ ~validatorDepositDataLaunchpad
    /\ NumValidators >= 2
    /\ Printed # <<>>

(***************************************************************************)
(* C3: in launchpad mode the printed output for every N >= 1 is a single   *)
(* JSON array whose elements are exactly the N deposit objects, in         *)
(* enumeration order, with one level of array nesting.                     *)
(***************************************************************************)
C3_LaunchpadFlatArray ==
    (Succeeded /\ ~quiet /\ ~validatorDepositDataRaw /\ validatorDepositDataLaunchpad)
    => /\ IsArrayOfObjects(PrintedValue, NumValidators, LaunchpadKeys)
       /\ \A i \in 1..NumValidators :
            BelongsTo(ElementOf(PrintedValue, i, LaunchpadKeys), validatorAccounts[i])

\* A launchpad run of two validators prints an array of two one-element
\* arrays, not an array of two objects.
C3_NestedWitness ==
    /\ Succeeded /\ ~quiet /\ ~validatorDepositDataRaw /\ validatorDepositDataLaunchpad
    /\ NumValidators = 2
    /\ PrintedValue[1].kind = "["
    /\ PrintedValue[2].kind = "["

(***************************************************************************)
(* Reading the inputs.                                                     *)
(***************************************************************************)
AmountBelowMinimum ==
    /\ ~StringToGWei(validatorDepositDataDepositValue).err
    /\ StringToGWei(validatorDepositDataDepositValue).val < 1000000000

AmountAtMinimum ==
    /\ ~StringToGWei(validatorDepositDataDepositValue).err
    /\ StringToGWei(validatorDepositDataDepositValue).val = 1000000000

\* A raw withdrawal public key is supplied and is not 48 bytes of hex.
RawWithdrawalKeyInvalid ==
    /\ validatorDepositDataWithdrawalPubKey # <<>>
    /\ LET d == HexDecodeString(TrimPrefix0x(validatorDepositDataWithdrawalPubKey))
       IN d.err \/ Len(d.bytes) # 48

\* A fork version is supplied and is not 4 bytes of hex.
ForkVersionInvalid ==
    /\ validatorDepositDataForkVersion # <<>>
    /\ LET d == HexDecodeString(TrimPrefix0x(validatorDepositDataForkVersion))
       IN d.err \/ Len(d.bytes) # 4

RequiredSelectorMissing ==
    \/ validatorDepositDataValidatorAccount = ""
    \/ (validatorDepositDataWithdrawalAccount = ""
        /\ validatorDepositDataWithdrawalPubKey = <<>>)
    \/ validatorDepositDataDepositValue = ""

\* The run ended in the deposit value check (lines 91-95).
RejectedAtDepositValue == Exited /\ idx = 0 /\ withdrawalCredentials # <<>>

\* The run never succeeds and no signature request has been issued.
FailsUnsigned == signRequests = <<>> /\ exitCode # 0

(***************************************************************************)
(* C4, as claimed: in any run where the amount is below the minimum, the   *)
(* raw withdrawal public key does not decode to exactly 48 bytes, a        *)
(* supplied fork version does not decode to exactly 4 bytes, or a required *)
(* selector is missing, the run fails with no signature request issued;    *)
(* an amount exactly at the minimum is accepted.                           *)
(***************************************************************************)
C4_Original ==
    /\ (AmountBelowMinimum \/ RawWithdrawalKeyInvalid \/ ForkVersionInvalid
        \/ RequiredSelectorMissing) => FailsUnsigned
    /\ AmountAtMinimum => ~RejectedAtDepositValue

(***************************************************************************)
(* C4, amended: as claimed, the raw withdrawal public key counting only    *)
(* when no withdrawal account is given (a withdrawal account takes         *)
(* precedence, and the raw key is then neither decoded nor checked).       *)
(***************************************************************************)
C4_ValidationBeforeSigning ==
    /\ (\/ AmountBelowMinimum
        \/ (RawWithdrawalKeyInvalid /\ validatorDepositDataWithdrawalAccount = "")
        \/ ForkVersionInvalid
        \/ RequiredSelectorMissing) => FailsUnsigned
    /\ AmountAtMinimum => ~RejectedAtDepositValue

\* A run whose only invalid input is the fork version, which is checked
\* inside the loop: it has ended there, at the first validator, unsigned.
C4_Witness ==
    /\ ForkVersionInvalid
    /\ ~AmountBelowMinimum /\ ~RequiredSelectorMissing /\ ~RawWithdrawalKeyInvalid
    /\ Exited /\ idx = 1 /\ validatorPubKey # <<>>
    /\ signRequests = <<>>
    /\ exitCode = exitFailure

(***************************************************************************)
(* C5: the fork version and the domain are computed once per invocation:   *)
(* with no fork version supplied the chain configuration is fetched at     *)
(* most once, whatever the number of validators, and every validator of    *)
(* the batch is signed under the same domain.                              *)
(***************************************************************************)
C5_ForkVersionFetchedOnce ==
    /\ fetchCalls <= 1
    /\ \A i, j \in 1..Len(signRequests) : signRequests[i].domain = signRequests[j].domain

(***************************************************************************)
(* C6: in quiet mode nothing is written to standard output in any run,     *)
(* and the exit status is 0 exactly when deposit data was generated for    *)
(* every matched validator.                                                *)
(***************************************************************************)
C6_QuietMode ==
    quiet =>
        /\ stdout = <<>>
        /\ Exited =>
            (exitCode = 0 <=> (NumValidators >= 1 /\ Len(outputs) = NumValidators))

(***************************************************************************)
(* Reading raw call data as the deposit contract does.                     *)
(***************************************************************************)
\* The value of a 32-byte big-endian word; -1 if it is 2^24 or more.
WordValue(w) ==
    IF \A k \in 1..29 : w[k] = 0 THEN 65536 * w[30] + 256 * w[31] + w[32] ELSE -1

\* The arguments: the call data after its 4-byte selector.
CallArgs(tx) == SubSeq(tx, 5, Len(tx))

\* The 32-byte word at byte offset off of the arguments.
WordAt(args, off) == SubSeq(args, off + 1, off + 32)

\* The dynamic value of head number h: follow the head's pointer to the
\* length word, and read that many bytes after it.
DynamicAt(args, h) ==
    LET ptr == WordValue(WordAt(args, 32 * (h - 1)))
    IN IF ptr < 0 \/ ptr + 32 > Len(args) THEN <<-1>>
       ELSE LET n == WordValue(WordAt(args, ptr))
            IN IF n < 0 \/ ptr + 32 + n > Len(args) THEN <<-1>>
               ELSE SubSeq(args, ptr + 33, ptr + 32 + n)

\* The call data a raw output entry stands for.
RawBytesOf(out) == BytesOf(out[1].val)

(***************************************************************************)
(* C7: raw-mode round trip.  Skipping the selector, following each of the  *)
(* three head pointers to its length word and reading that many bytes,     *)
(* and reading the fourth head word, gives back exactly the public key,    *)
(* the withdrawal credentials, the signature and the deposit data root.    *)
(***************************************************************************)
RoundTrips(out) ==
    LET args == CallArgs(RawBytesOf(out))
    IN /\ DynamicAt(args, 1) = validatorPubKey
       /\ DynamicAt(args, 2) = withdrawalCredentials
       /\ DynamicAt(args, 3) = signature
       /\ WordAt(args, 96) = depositDataRoot

C7_RawRoundTrip ==
    /\ \A k \in 1..Len(outputs) : RoundTrips(outputs[k])
    /\ Succeeded => Printed[1].kind = "raw" /\ RoundTrips(<<Printed[1]>>)

\* The printed call data of a validator whose key, credentials, signature
\* and root are not all-zero: the key is all 0xff, the others patterned.
C7_Witness ==
    /\ Succeeded
    /\ Printed # <<>>
    /\ validatorPubKey = [j \in 1..48 |-> 255]
    /\ withdrawalCredentials[2] # 0
    /\ signature[1] # signature[2]
    /\ depositDataRoot[1] # depositDataRoot[2]

(***************************************************************************)
(* C8: raw-mode layout.  The call data is exactly 420 bytes, the three     *)
(* head pointers 0x80, 0xe0 and 0x120 are the offsets, from the first byte *)
(* after the selector, of the length words of the public key, the          *)
(* withdrawal credentials and the signature, and every dynamic value is    *)
(* right-padded with zeros to a 32-byte boundary.                          *)
(***************************************************************************)
\* n rounded up to a multiple of 32.
Pad32(n) == ((n + 31) \div 32) * 32

\* Where the ABI puts the tails of three dynamic values of these lengths
\* that follow four head words.
TailOffsets(n1, n2, n3) ==
    << 4 * 32,
       4 * 32 + 32 + Pad32(n1),
       4 * 32 + 32 + Pad32(n1) + 32 + Pad32(n2),
       4 * 32 + 32 + Pad32(n1) + 32 + Pad32(n2) + 32 + Pad32(n3) >>

\* At offset off of args: the length word of value v, then v, then zeros
\* up to the next 32-byte boundary.
TailHolds(args, off, v) ==
    /\ WordValue(WordAt(args, off)) = Len(v)
    /\ SubSeq(args, off + 33, off + 32 + Len(v)) = v
    /\ \A k \in (off + 32 + Len(v) + 1)..(off + 32 + Pad32(Len(v))) : args[k] = 0

LayoutHolds(out) ==
    LET tx   == RawBytesOf(out)
        args == CallArgs(tx)
        at   == TailOffsets(Len(validatorPubKey), Len(withdrawalCredentials),
                            Len(signature))
    IN /\ Len(tx) = 4 + 96 + 32 + 32 + 48 + 16 + 32 + 32 + 32 + 96
       /\ Len(tx) = 420
       /\ Len(args) = at[4]
       /\ WordValue(WordAt(args, 0)) = 128 /\ at[1] = 128
       /\ WordValue(WordAt(args, 32)) = 224 /\ at[2] = 224
       /\ WordValue(WordAt(args, 64)) = 288 /\ at[3] = 288
       /\ TailHolds(args, at[1], validatorPubKey)
       /\ TailHolds(args, at[2], withdrawalCredentials)
       /\ TailHolds(args, at[3], signature)

C8_RawLayout == \A k \in 1..Len(outputs) : LayoutHolds(outputs[k])

\* Encoded call data whose values around the padding are all 0xff, so
\* that the sixteen zero bytes after the key are the padding alone.
C8_Witness ==
    /\ Len(outputs) = 1
    /\ validatorPubKey = [j \in 1..48 |-> 255]
    /\ signature = [j \in 1..96 |-> 255]
    /\ withdrawalCredentials[32] = 255

(***************************************************************************)
(* C9: the withdrawal credentials are 32 bytes, byte 0 being 0x00 and      *)
(* bytes 1..31 those of the hash of the withdrawal public key, whether     *)
(* that key comes from a withdrawal account or is given raw; the same      *)
(* value is in the message of every signature request and in the output    *)
(* of every validator.                                                     *)
(***************************************************************************)
\* The withdrawal public key the inputs designate.
WithdrawalPubKeyGiven ==
    IF validatorDepositDataWithdrawalAccount # ""
    THEN AccountPubKey(WithdrawalAccount)
    ELSE BytesOf(validatorDepositDataWithdrawalPubKey)

\* The withdrawal credentials an output entry carries.
CredentialsIn(out) ==
    IF out[1].kind = "raw"
    THEN DynamicAt(CallArgs(RawBytesOf(out)), 2)
    ELSE BytesOf(out[CHOOSE k \in 1..Len(out) :
                        out[k].key = "withdrawal_credentials"].val)

C9_WithdrawalCredentials ==
    withdrawalCredentials # <<>> =>
        /\ Len(withdrawalCredentials) = 32
        /\ withdrawalCredentials[1] = 0
        /\ \A key \in {WithdrawalPubKeyGiven} : \A hash \in {SHA256(key)} :
              \A j \in 2..32 : withdrawalCredentials[j] = hash[j]
        /\ \A k \in 1..Len(signRequests) :
              signRequests[k].data.WithdrawalCredentials = withdrawalCredentials
        /\ \A k \in 1..Len(outputs) : CredentialsIn(outputs[k]) = withdrawalCredentials

\* Two validators signed and encoded, for a raw withdrawal key whose hash
\* does not itself begin with a zero byte.
C9_Witness ==
    /\ validatorDepositDataWithdrawalAccount = ""
    /\ Len(outputs) >= 2
    /\ Len(signRequests) >= 2
    /\ \E key \in {WithdrawalPubKeyGiven} : SHA256(key)[1] # 0
    /\ withdrawalCredentials[1] = 0

(***************************************************************************)
(* C10: each matched validator account receives at most one signature      *)
(* request, requests are issued in enumeration order, a failed request is  *)
(* never retried, and a run that ends successfully has issued exactly one  *)
(* request per matched validator.                                          *)
(***************************************************************************)
C10_OneSignatureRequestEach ==
    /\ Len(signRequests) <= NumValidators
    /\ \A k \in 1..Len(signRequests) :
        /\ signRequests[k].account = validatorAccounts[k]
        /\ \A m \in 1..Len(signRequests) :
              signRequests[m].account = signRequests[k].account => m = k
        /\ ~signRequests[k].ok => (k = Len(signRequests) /\ Exited /\ exitCode # 0)
    /\ Succeeded =>
        /\ Len(signRequests) = NumValidators
        /\ \A k \in 1..NumValidators : signRequests[k].ok

\* A batch whose first validator was signed and whose second was refused:
\* the run has ended with those two requests and no more.
C10_Witness ==
    /\ Exited
    /\ NumValidators >= 2
    /\ Len(signRequests) = 2
    /\ signRequests[1].ok
    /\ ~signRequests[2].ok

=============================================================================
